---------------------------- MODULE Spec2Model ----------------------------
(***************************************************************************)
(* The discrete-event core of the learning-factory simulation:             *)
(* run_simulation (learning_factory/simulate.py), the arrival sources      *)
(* (learning_factory/flows.py) and the station runners                     *)
(* (learning_factory/stations.py), on top of the event queue, Store and    *)
(* Container of the simpy library the code builds on.                      *)
(*                                                                         *)
(* Time is counted in ticks of 0.1 min, the polling interval of the        *)
(* priority station (poll_dt_min = 0.1); one tick is 6 s of cycle time.    *)
(* One step of the model is one event of the queue being processed         *)
(* (simpy's Environment.step): the callbacks of the event run, and the     *)
(* process waiting for it runs up to its next yield.                       *)
(***************************************************************************)
EXTENDS Integers, Sequences, FiniteSets, TLC

VARIABLES
    cfg,        \* the configuration dictionary handed to run_simulation
    phase,      \* "run1": env.run(until=horizon); "run2": the warm-down run;
                \* "done": KPIs computed; "error": an exception left run_simulation
    now,        \* env.now
    queue,      \* the pending events, in the order the environment pops them
    items,      \* Store.items of every buffer
    putq,       \* Store.put_queue of every buffer (pending put requests)
    getq,       \* Store.get_queue of every buffer (pending get requests)
    level,      \* Container.level of the worker pool
    cgetq,      \* Container.get_queue of the worker pool
    cputq,      \* Container.put_queue of the worker pool
    procs,      \* the processes of the environment, as created (immutable)
    capacity,   \* Store.capacity of every buffer (immutable)
    proc,       \* the generator of every process: its position and locals
    metrics,    \* the metrics dictionary
    rows,       \* inventory_rows, appended to by the sampler
    kpi         \* the tables computed after the run

vars == <<cfg, phase, now, queue, items, putq, getq, level, cgetq, cputq,
          procs, capacity, proc, metrics, rows, kpi>>

----------------------------------------------------------------------------
(* Bounds of the model. *)

\* The run horizon cfg.meta.horizon_min, in ticks.
Horizon == 6

\* The largest interarrival draw of the two sources, in ticks.
MaxInter == 2

(* Program constants. *)

\* One tick is 6 s: cycle_time_s / 60.0 min, in ticks of 0.1 min.
SecPerTick == 6

\* poll_dt_min = 0.1, in ticks.
PollDt == 1

\* The capacity of an auto-created after_<station> buffer.
AfterCap == 999999

\* The interarrival "drawn" by the primary source when rate_per_min is 0.
NoArrival == 1000000000

\* simpy's event priorities.
URGENT == 0
NORMAL == 1

\* float("inf"): a time-to-failure that never expires.
Inf == 2000000000

NoItem == <<>>
EmptyDict == [x \in {} |-> 0]

DictGet(d, k, dflt) == IF k \in DOMAIN d THEN d[k] ELSE dflt
DictSet(d, k, v) == [x \in (DOMAIN d) \cup {k} |-> IF x = k THEN v ELSE d[x]]

Max(a, b) == IF a >= b THEN a ELSE b
Min(a, b) == IF a <= b THEN a ELSE b


----------------------------------------------------------------------------
(* The configuration.  Times are in ticks, cycle times in seconds. *)

Station(id, ct_s, machines, wr) ==
    [id |-> id, type |-> "process", cycle_time_s |-> ct_s,
     machines |-> machines, workers_required |-> wr,
     kwh_per_unit |-> 1, air_m3_per_unit |-> 1]

Sink(id) ==
    [id |-> id, type |-> "sink", cycle_time_s |-> 0,
     machines |-> 1, workers_required |-> 0,
     kwh_per_unit |-> 0, air_m3_per_unit |-> 0]

\* A reliability entry of cfg.reliability; mtbf_min <= 0 never fails.
NoFailure ==
    [mtbf_min |-> 0, mttr_min |-> 0, mttr_dist |-> "fixed", mttr_sigma_min |-> 0]

\* A reliability entry with failures: mean time between failures of 2 ticks,
\* a fixed repair time of 1 tick.
Failing ==
    [mtbf_min |-> 2, mttr_min |-> 1, mttr_dist |-> "fixed", mttr_sigma_min |-> 0]

\* The top-level sections of a complete configuration file.
AllSections ==
    {"meta", "resources", "buffers", "forward_flow", "reverse_flow", "rules",
     "arrivals"}

\* config.py, line 4.
REQUIRED_KEYS ==
    {"meta", "resources", "buffers", "forward_flow", "reverse_flow", "rules"}

BaseCfg ==
    [ sections     |-> AllSections,
      horizon      |-> Horizon,
      warmdown     |-> 2,
      sample_every |-> 4,
      buffers      |-> [neu_lager |-> 1, warenannahme |-> 1, reman_lager |-> 1,
                        lager1 |-> 1, lager2 |-> 1],
      workers_total |-> 1,
      forward_flow |-> << Station("pressen_1", 6, 1, 1),
                          Station("pressen_2", 6, 2, 1),
                          Sink("kunde") >>,
      new_rate     |-> 1,
      ret_inter    |-> 2,
      batch_mean   |-> 1,
      shortcut_delay |-> 1,
      reliability  |-> [default |-> NoFailure, stations |-> EmptyDict] ]

\* A reliability entry with a normally distributed repair time, of mean 1
\* tick and standard deviation 2 ticks.
FailingNormal ==
    [mtbf_min |-> 2, mttr_min |-> 1, mttr_dist |-> "normal", mttr_sigma_min |-> 2]

\* Every station fails and is repaired; returns only.
FailCfg ==
    [BaseCfg EXCEPT !.reliability.default = Failing, !.new_rate = 0]

\* Only pressen_2 fails, by a reliability entry of its own; returns only.
FailNormalCfg ==
    [FailCfg EXCEPT !.reliability.default = NoFailure,
                    !.reliability.stations = [pressen_2 |-> FailingNormal]]

\* Contention for a pool of two workers: pressen_1 needs none, the two
\* machines of pressen_2 one each, pressen_3 both.
PoolCfg ==
    [BaseCfg EXCEPT !.workers_total = 2,
                    !.forward_flow = << Station("pressen_1", 6, 1, 0),
                                        Station("pressen_2", 12, 2, 1),
                                        Station("pressen_3", 6, 1, 2),
                                        Sink("kunde") >>]

\* A station that needs more workers than the pool has.
StuckCfg ==
    [BaseCfg EXCEPT !.forward_flow = << Station("pressen_1", 6, 1, 1),
                                        Station("pressen_2", 6, 2, 2),
                                        Sink("kunde") >>]

\* A line with a single forward station, of a cycle time of 2 ticks; no
\* station is called pressen_1.
SingleCfg ==
    [BaseCfg EXCEPT !.forward_flow = << Station("montage", 12, 1, 1),
                                        Sink("kunde") >>]

\* A line whose only station is pressen_1, configured with two machines.
TwoMachinePriorityCfg ==
    [BaseCfg EXCEPT !.forward_flow = << Station("pressen_1", 12, 2, 0),
                                        Sink("kunde") >>]

\* The single-station line without a warm-down.
SingleNoWarmDownCfg == [SingleCfg EXCEPT !.warmdown = 0]

\* No return gets past the reverse shortcut during the run: lager1 and
\* lager2 stay empty.
OnlyNewCfg == [BaseCfg EXCEPT !.shortcut_delay = 3 * Horizon]

\* No primary arrivals: neu_lager stays empty.
OnlyRemanCfg == [BaseCfg EXCEPT !.new_rate = 0]

\* A warm-down long enough for the reference line to deliver all its stock.
LongWarmDown(c) == [c EXCEPT !.warmdown = 4 * Horizon]

\* No primary arrivals (rate_per_min = 0) and no returns (interarrival_min = 0).
QuietCfg == [BaseCfg EXCEPT !.new_rate = 0, !.ret_inter = 0]

\* A configuration file without its arrivals section.
NoArrivalsCfg == [BaseCfg EXCEPT !.sections = @ \ {"arrivals"}]

\* A configuration file without its meta section.
NoMetaCfg == [BaseCfg EXCEPT !.sections = @ \ {"meta"}]

\* A horizon shorter than the route time of the line: the cutoff of the
\* primary source is 0.
ShortCfg == [BaseCfg EXCEPT !.horizon = 1]

\* A line in which pressen_1 is the second station.
ReorderedCfg ==
    [BaseCfg EXCEPT !.forward_flow = << Station("zuschnitt", 6, 1, 1),
                                        Station("pressen_1", 6, 1, 1),
                                        Sink("kunde") >>]

\* A forward flow that does not end with a sink.
NoSinkCfg ==
    [BaseCfg EXCEPT !.forward_flow = << Station("pressen_1", 6, 1, 1),
                                        Station("pressen_2", 6, 1, 1) >>]

\* The configurations the model is run with.
Configs ==
    { BaseCfg,
      ShortCfg,
      QuietCfg,
      NoArrivalsCfg,
      NoMetaCfg,
      \* no worker pool
      [BaseCfg EXCEPT !.workers_total = 0],
      \* a primary intake buffer of capacity 0
      [BaseCfg EXCEPT !.buffers.neu_lager = 0] }

----------------------------------------------------------------------------
(* run_simulation: construction. *)

After(id) == "after_" \o id

\* The forward_flow steps up to the sink (the loop breaks at the sink).
RECURSIVE StepsRun(_, _)
StepsRun(ff, i) ==
    IF i > Len(ff) THEN <<>>
    ELSE IF ff[i].type = "sink" THEN <<ff[i]>>
    ELSE <<ff[i]>> \o StepsRun(ff, i + 1)

ProcessSteps(c) ==
    LET run == StepsRun(c.forward_flow, 1)
    IN  {run[i].id : i \in {j \in 1..Len(run) : run[j].type = "process"}}

\* Buffers with the configured capacity not handed to the Store.
BuffersUnbounded(c) ==
    [b \in (DOMAIN c.buffers) \cup {After(id) : id \in ProcessSteps(c)} |-> AfterCap]

\* buffers: the configured stores plus ensure_buffer's after_<station> stores.

Buffers(c) ==
    [b \in (DOMAIN c.buffers) \cup {After(id) : id \in ProcessSteps(c)} |->
        IF b \in DOMAIN c.buffers THEN c.buffers[b] ELSE AfterCap]

Capacity(b) == capacity[b]

\* workers_pool is None when workers_total is 0.
HasPool(c) == c.workers_total > 0

total_route_time_min(c) ==
    LET ff == c.forward_flow
        RECURSIVE Secs(_)
        Secs(i) == IF i = 0 THEN 0
                   ELSE Secs(i - 1) +
                        (IF ff[i].type = "process" THEN ff[i].cycle_time_s ELSE 0)
    IN  Secs(Len(ff)) \div SecPerTick

stop_new_at(c) == Max(0, c.horizon - total_route_time_min(c))

\* A process of the environment, as run_simulation creates it.
Proc(kind, name, ins, out, ct_s, wr) ==
    [kind |-> kind, name |-> name, base_id |-> name, ins |-> ins, out |-> out,
     ct |-> ct_s \div SecPerTick, wr |-> wr]

RECURSIVE Chain(_, _, _)
Chain(ff, i, prev) ==
    IF i > Len(ff) THEN <<>>
    ELSE LET step == ff[i] IN
         IF step.type = "sink"
         THEN <<Proc("sink_consumer", step.id, <<prev>>, "", 0, 0)>>
         ELSE (IF step.id = "pressen_1"
               THEN <<Proc("run_priority_station", step.id,
                           <<"lager1", "lager2", "neu_lager">>, After(step.id),
                           step.cycle_time_s, step.workers_required)>>
               ELSE [m \in 1..step.machines |->
                        [Proc("run_serial_station", step.id, <<prev>>,
                              After(step.id), step.cycle_time_s,
                              step.workers_required)
                         EXCEPT !.name = IF step.machines = 1 THEN step.id
                                         ELSE step.id \o "#" \o ToString(m)]])
              \o Chain(ff, i + 1, After(step.id))

\* env.process(...) calls of run_simulation, in order.
ProcList(c) ==
    << Proc("new_orders_source", "new", <<>>, "neu_lager", 0, 0),
       Proc("returns_source", "returns", <<>>, "warenannahme", 0, 0),
       Proc("reverse_shortcut", "shortcut", <<"warenannahme">>, "reman_lager", 0, 0),
       Proc("reman_merge_feeder", "feeder", <<"reman_lager">>, "lager1", 0, 0) >>
    \o Chain(c.forward_flow, 1, "neu_lager")
    \o << Proc("sampler", "sampler", <<>>, "", 0, 0) >>

Procs == procs
Pids == 1..Len(Procs)
PidsOf(kind) == {p \in Pids : Procs[p].kind = kind}
Stations == PidsOf("run_serial_station") \cup PidsOf("run_priority_station")

\* load_config returns the configuration unless a required key is missing.
load_config(c) == REQUIRED_KEYS \ c.sections = {}

\* load_config has returned; simpy refuses a Store of capacity <= 0 and a
\* run until a time <= now.
Constructible(c) ==
    /\ load_config(c)
    /\ \A b \in DOMAIN c.buffers : c.buffers[b] > 0
    /\ c.horizon > 0

\* The locals of a generator before it has started.
Locals0 ==
    [pc |-> "start", item |-> NoItem, src |-> "", start |-> 0, busy |-> 0,
     produced |-> 0, downtime |-> 0, ttf |-> Inf, repair |-> 0, n |-> 0,
     left |-> 0]

Metrics0 ==
    [arrivals_new |-> 0, lost_new_due_to_neu_lager_full |-> 0,
     arrivals_returns |-> 0, throughput_kunde |-> 0,
     station_output |-> EmptyDict, station_busy_time |-> EmptyDict,
     station_downtime |-> EmptyDict, inproc_now |-> EmptyDict,
     inproc_peak |-> EmptyDict, kwh |-> EmptyDict, air_m3 |-> EmptyDict,
     pressen1_from_reman |-> 0, pressen1_from_new |-> 0]

Event(t, prio, kind, p, res, val) ==
    [t |-> t, prio |-> prio, kind |-> kind, proc |-> p, res |-> res, val |-> val]

InitOf(configs) ==
    /\ cfg \in configs
    /\ now = 0
    /\ level = cfg.workers_total
    /\ cgetq = <<>>
    /\ cputq = <<>>
    /\ metrics = Metrics0
    /\ rows = <<>>
    /\ kpi = EmptyDict
    /\ IF Constructible(cfg)
       THEN /\ phase = "run1"
            /\ procs = ProcList(cfg)
            /\ capacity = Buffers(cfg)
            /\ items = [b \in DOMAIN Buffers(cfg) |-> <<>>]
            /\ putq = [b \in DOMAIN Buffers(cfg) |-> <<>>]
            /\ getq = [b \in DOMAIN Buffers(cfg) |-> <<>>]
            /\ proc = [p \in 1..Len(ProcList(cfg)) |-> Locals0]
            /\ queue = [p \in 1..Len(ProcList(cfg)) |->
                           Event(0, URGENT, "init", p, "", NoItem)]
                       \o <<Event(cfg.horizon, URGENT, "until", 0, "", NoItem)>>
       ELSE /\ phase = "error"
            /\ procs = <<>>
            /\ capacity = EmptyDict
            /\ items = EmptyDict
            /\ putq = EmptyDict
            /\ getq = EmptyDict
            /\ proc = <<>>
            /\ queue = <<>>

Init == InitOf(Configs)

----------------------------------------------------------------------------
(* The environment: the state a step works on, the event queue, Store and  *)
(* Container.  Every operator maps a state record to the state after it.   *)

S == [now |-> now, queue |-> queue, items |-> items, putq |-> putq,
      getq |-> getq, level |-> level, cgetq |-> cgetq, cputq |-> cputq,
      proc |-> proc, metrics |-> metrics, rows |-> rows, err |-> FALSE]

\* A queue order in which a new event overtakes the pending events of its
\* time and priority.
PrecedesLifo(e, f) == e.t < f.t \/ (e.t = f.t /\ e.prio < f.prio)

\* Events pop by (time, priority, insertion order).
Precedes(e, f) == e.t < f.t \/ (e.t = f.t /\ e.prio <= f.prio)

Schedule(s, e) ==
    LET q == s.queue
        k == Cardinality({i \in 1..Len(q) : Precedes(q[i], e)})
    IN  [s EXCEPT !.queue = SubSeq(q, 1, k) \o <<e>> \o SubSeq(q, k + 1, Len(q))]

SetPc(s, p, pc) == [s EXCEPT !.proc[p].pc = pc]

\* yield env.timeout(delay)
Timeout(s, p, delay, pc) ==
    SetPc(Schedule(s, Event(s.now + delay, NORMAL, "timeout", p, "", NoItem)), p, pc)

\* The generator returns: its Process event is scheduled and has no callbacks.
Exit(s, p) ==
    SetPc(Schedule(s, Event(s.now, NORMAL, "exit", p, "", NoItem)), p, "done")

\* Store._do_put of the head of the put queue (one request per trigger).
TriggerPut(s, b) ==
    IF s.putq[b] = <<>> THEN s
    ELSE LET r == Head(s.putq[b]) IN
         IF Len(s.items[b]) < Capacity(b)
         THEN Schedule([s EXCEPT !.items[b] = Append(@, r.item),
                                 !.putq[b] = Tail(@)],
                       Event(s.now, NORMAL, "put", r.proc, b, NoItem))
         ELSE s

\* Store._do_get of the head of the get queue (one request per trigger).
TriggerGet(s, b) ==
    IF s.getq[b] = <<>> THEN s
    ELSE IF s.items[b] # <<>>
         THEN Schedule([s EXCEPT !.items[b] = Tail(@), !.getq[b] = Tail(@)],
                       Event(s.now, NORMAL, "get", Head(s.getq[b]), b,
                             Head(s.items[b])))
         ELSE s

\* yield store.put(item)
StorePut(s, b, p, item, pc) ==
    SetPc(TriggerPut([s EXCEPT !.putq[b] = Append(@, [proc |-> p, item |-> item])], b),
          p, pc)

\* item = yield store.get()
StoreGet(s, b, p, pc) ==
    SetPc(TriggerGet([s EXCEPT !.getq[b] = Append(@, p)], b), p, pc)

\* A pool that grants any pending request that fits, passing over the head.
RECURSIVE TriggerCGetAnyFit(_)
TriggerCGetAnyFit(s) ==
    LET fit == {i \in 1..Len(s.cgetq) : s.level >= s.cgetq[i].amount} IN
    IF fit = {} THEN s
    ELSE LET i == CHOOSE j \in fit : \A k \in fit : j <= k
             r == s.cgetq[i]
         IN  TriggerCGetAnyFit(
                Schedule([s EXCEPT !.level = @ - r.amount,
                                   !.cgetq = SubSeq(@, 1, i - 1)
                                             \o SubSeq(@, i + 1, Len(@))],
                         Event(s.now, NORMAL, "cget", r.proc, "", NoItem)))

\* Container._do_get of the get queue, in order, up to the first that must wait.
RECURSIVE TriggerCGet(_)
TriggerCGet(s) ==
    IF s.cgetq = <<>> THEN s
    ELSE LET r == Head(s.cgetq) IN
         IF s.level >= r.amount
         THEN TriggerCGet(Schedule([s EXCEPT !.level = @ - r.amount,
                                             !.cgetq = Tail(@)],
                                   Event(s.now, NORMAL, "cget", r.proc, "", NoItem)))
         ELSE s

\* Container._do_put of the put queue, in order, up to the first that must wait.
RECURSIVE TriggerCPut(_)
TriggerCPut(s) ==
    IF s.cputq = <<>> THEN s
    ELSE LET r == Head(s.cputq) IN
         IF cfg.workers_total - s.level >= r.amount
         THEN TriggerCPut(Schedule([s EXCEPT !.level = @ + r.amount,
                                             !.cputq = Tail(@)],
                                   Event(s.now, NORMAL, "cput", r.proc, "", NoItem)))
         ELSE s

\* yield workers_pool.get(amount)
ContainerGet(s, p, amount, pc) ==
    SetPc(TriggerCGet([s EXCEPT !.cgetq = Append(@, [proc |-> p, amount |-> amount])]),
          p, pc)

\* yield workers_pool.put(amount)
ContainerPut(s, p, amount, pc) ==
    SetPc(TriggerCPut([s EXCEPT !.cputq = Append(@, [proc |-> p, amount |-> amount])]),
          p, pc)

\* Environment.step: pop the next event, advance the clock, run the
\* resource's callback of the event (the process's own comes after it).
Pop(s) ==
    LET e  == Head(s.queue)
        s1 == [s EXCEPT !.queue = Tail(@), !.now = e.t]
    IN  CASE e.kind = "put"  -> TriggerGet(s1, e.res)
          [] e.kind = "get"  -> TriggerPut(s1, e.res)
          [] e.kind = "cput" -> TriggerCGet(s1)
          [] e.kind = "cget" -> TriggerCPut(s1)
          [] OTHER -> s1

Running == phase \in {"run1", "run2"}

\* The next event resumes a process of this kind.
Next_is(kind) ==
    /\ Running
    /\ queue # <<>>
    /\ Head(queue).kind # "until"
    /\ Procs[Head(queue).proc].kind = kind

Commit(s) ==
    /\ now' = s.now
    /\ queue' = s.queue
    /\ items' = s.items
    /\ putq' = s.putq
    /\ getq' = s.getq
    /\ level' = s.level
    /\ cgetq' = s.cgetq
    /\ cputq' = s.cputq
    /\ proc' = s.proc
    /\ metrics' = s.metrics
    /\ rows' = s.rows
    /\ phase' = IF s.err THEN "error" ELSE phase
    /\ UNCHANGED <<cfg, procs, capacity, kpi>>

----------------------------------------------------------------------------
(* flows.py: the arrival sources. *)

\* random.expovariate(rate): a positive interarrival; 10**9 when rate is 0.
InterDraws(rate) == IF rate > 0 THEN 1..MaxInter ELSE {NoArrival}

\* random.gauss(batch_mean, 1), in tenths.
GaussDraws(mean) == {10 * mean - 15, 10 * mean + 5, 10 * mean + 15}

\* int(x) of a value given in tenths: truncation towards zero.
IntOfTenths(x) == IF x >= 0 THEN x \div 10 ELSE -((-x) \div 10)

_should_stop(s, stop_at) == s.now >= stop_at

\* A loop head that waits for the drawn arrival whether or not it crosses
\* the cutoff.
NewLoopOvershoots(s, p, inter) ==
    IF _should_stop(s, stop_new_at(cfg)) THEN Exit(s, p)
    ELSE Timeout(s, p, inter, "wait_arrival")

\* new_orders_source, lines 18-31: the head of the loop.
NewLoop(s, p, inter) ==
    LET stop_at == stop_new_at(cfg) IN
    IF _should_stop(s, stop_at) THEN Exit(s, p)
    ELSE IF s.now + inter > stop_at
         THEN Timeout(s, p, Max(0, stop_at - s.now), "wait_cutoff")
         ELSE Timeout(s, p, inter, "wait_arrival")

\* The try-put counting a dropped token as an arrival.
NewTryPutCountsDropped(s, p, token, inter) ==
    IF Len(s.items["neu_lager"]) < Capacity("neu_lager")
    THEN StorePut(s, "neu_lager", p, token, "wait_put")
    ELSE NewLoop([s EXCEPT !.metrics.arrivals_new = @ + 1], p, inter)

\* The try-put with the capacity test off by one: a put into a full buffer.
NewTryPutOffByOne(s, p, token, inter) ==
    IF Len(s.items["neu_lager"]) <= Capacity("neu_lager")
    THEN StorePut(s, "neu_lager", p, token, "wait_put")
    ELSE NewLoop([s EXCEPT !.metrics.lost_new_due_to_neu_lager_full = @ + 1],
                 p, inter)

\* new_orders_source, lines 39-45: the try-put of a new token.
NewTryPut(s, p, token, inter) ==
    IF Len(s.items["neu_lager"]) < Capacity("neu_lager")
    THEN StorePut(s, "neu_lager", p, token, "wait_put")
    ELSE NewLoop([s EXCEPT !.metrics.lost_new_due_to_neu_lager_full = @ + 1],
                 p, inter)

new_orders_source(s, p, inter) ==
    LET pc == s.proc[p].pc IN
    CASE pc = "start" ->
            \* line 15: cfg["arrivals"] raises KeyError without the section
            IF "arrivals" \notin cfg.sections THEN [s EXCEPT !.err = TRUE]
            ELSE NewLoop(s, p, inter)
      [] pc = "wait_arrival" ->
            LET k == s.proc[p].n + 1 IN
            NewTryPut([s EXCEPT !.proc[p].n = k], p, <<"NEW", k, s.now>>, inter)
      [] pc = "wait_put" ->
            NewLoop([s EXCEPT !.metrics.arrivals_new = @ + 1], p, inter)
      [] pc = "wait_cutoff" -> Exit(s, p)
      [] OTHER -> s

\* returns_source, lines 57-66: the head of the loop.
ReturnsLoop(s, p, dt) ==
    IF _should_stop(s, cfg.horizon) THEN Exit(s, p)
    ELSE IF cfg.ret_inter = 0 THEN [s EXCEPT !.err = TRUE]
    ELSE IF s.now + dt > cfg.horizon
         THEN Timeout(s, p, Max(0, cfg.horizon - s.now), "wait_cutoff")
         ELSE Timeout(s, p, dt, "wait_batch")

\* A returns source that drops the unit when warenannahme is full and goes on.
ReturnsPutDropsWhenFull(s, p) ==
    LET i  == s.proc[p].n + 1
        s1 == [s EXCEPT !.proc[p].n = i, !.proc[p].left = @ - 1]
    IN  IF Len(s.items["warenannahme"]) < Capacity("warenannahme")
        THEN StorePut(s1, "warenannahme", p, <<"RET", i>>, "wait_put")
        ELSE SetPc(Schedule(s1, Event(s.now, NORMAL, "put", p, "warenannahme",
                                      NoItem)), p, "wait_put")

\* returns_source, lines 71-74: the next unit of the batch.
ReturnsPut(s, p) ==
    LET i == s.proc[p].n + 1 IN
    StorePut([s EXCEPT !.proc[p].n = i, !.proc[p].left = @ - 1],
             "warenannahme", p, <<"RET", i>>, "wait_put")

returns_source(s, p, dt, g) ==
    LET pc == s.proc[p].pc IN
    CASE pc = "start" ->
            \* line 53: cfg["arrivals"] raises KeyError without the section
            IF "arrivals" \notin cfg.sections THEN [s EXCEPT !.err = TRUE]
            ELSE ReturnsLoop(s, p, dt)
      [] pc = "wait_batch" ->
            LET batch_size == Max(1, IntOfTenths(g)) IN
            ReturnsPut([s EXCEPT !.proc[p].left = batch_size], p)
      [] pc = "wait_put" ->
            LET s1 == [s EXCEPT !.metrics.arrivals_returns = @ + 1] IN
            IF s.proc[p].left > 0 THEN ReturnsPut(s1, p)
            ELSE ReturnsLoop(s1, p, dt)
      [] pc = "wait_cutoff" -> Exit(s, p)
      [] OTHER -> s

----------------------------------------------------------------------------
(* simulate.py: the reverse flow, the sink and the sampler. *)

\* A shortcut that passes its token on without holding it.
ShortcutNoHold(s, p) == Timeout(s, p, 0, "wait_delay")

\* Line 34: yield env.timeout(delay_min).
ShortcutHold(s, p) == Timeout(s, p, cfg.shortcut_delay, "wait_delay")

reverse_shortcut(s, p, val) ==
    LET pc == s.proc[p].pc IN
    CASE pc = "start" -> StoreGet(s, "warenannahme", p, "wait_get")
      [] pc = "wait_get" -> ShortcutHold([s EXCEPT !.proc[p].item = val], p)
      [] pc = "wait_delay" ->
            StorePut([s EXCEPT !.proc[p].item = NoItem], "reman_lager", p,
                     s.proc[p].item, "wait_put")
      [] pc = "wait_put" -> StoreGet(s, "warenannahme", p, "wait_get")
      [] OTHER -> s

\* A feeder that goes to the other buffer when its target is full.
FeederTargetWithRoom(s, toggle) ==
    LET tgt   == IF toggle % 2 = 0 THEN "lager1" ELSE "lager2"
        other == IF toggle % 2 = 0 THEN "lager2" ELSE "lager1"
    IN  IF Len(s.items[tgt]) >= Capacity(tgt) /\ Len(s.items[other]) < Capacity(other)
        THEN other ELSE tgt

\* Line 42: l1 if toggle % 2 == 0 else l2.
FeederTarget(s, toggle) == IF toggle % 2 = 0 THEN "lager1" ELSE "lager2"

reman_merge_feeder(s, p, val) ==
    LET pc == s.proc[p].pc
        toggle == s.proc[p].n
    IN
    CASE pc = "start" -> StoreGet(s, "reman_lager", p, "wait_get")
      [] pc = "wait_get" ->
            StorePut(s, FeederTarget(s, toggle), p, val, "wait_put")
      [] pc = "wait_put" ->
            StoreGet([s EXCEPT !.proc[p].n = toggle + 1], "reman_lager", p,
                     "wait_get")
      [] OTHER -> s

sink_consumer(s, p) ==
    LET pc == s.proc[p].pc
        input_store == Procs[p].ins[1]
    IN
    CASE pc = "start" -> StoreGet(s, input_store, p, "wait_get")
      [] pc = "wait_get" ->
            StoreGet([s EXCEPT !.metrics.throughput_kunde = @ + 1],
                     input_store, p, "wait_get")
      [] OTHER -> s

sampler(s, p) ==
    LET row == [time_min |-> s.now,
                depth |-> [b \in DOMAIN s.items |-> Len(s.items[b])],
                inproc |-> s.metrics.inproc_now]
    IN  Timeout([s EXCEPT !.rows = Append(@, row)], p, cfg.sample_every, "wait")

----------------------------------------------------------------------------
(* stations.py: the station runners. *)

\* A gauge whose peak is not kept.
_begin_processing_no_peak(m, st) ==
    [m EXCEPT !.inproc_now = DictSet(@, st, DictGet(@, st, 0) + 1),
              !.inproc_peak = DictSet(@, st, DictGet(@, st, 0))]

_begin_processing(m, st) ==
    LET n == DictGet(m.inproc_now, st, 0) + 1
        peak == DictGet(m.inproc_peak, st, 0)
    IN  [m EXCEPT !.inproc_now = DictSet(@, st, n),
                  !.inproc_peak = DictSet(@, st, IF n > peak THEN n ELSE peak)]

_end_processing(m, st) ==
    [m EXCEPT !.inproc_now = DictSet(@, st, Max(0, DictGet(@, st, 0) - 1)),
              !.inproc_peak = DictSet(@, st, DictGet(@, st, 0))]

\* station_intensity[base_id], built by run_simulation (lines 93-102).
station_intensity(st) ==
    LET ff == cfg.forward_flow
        idx == {i \in 1..Len(ff) : ff[i].type = "process" /\ ff[i].id = st}
    IN  IF idx = {} THEN [kwh_per_unit |-> 0, air_m3_per_unit |-> 0]
        ELSE LET i == CHOOSE j \in idx : \A k \in idx : k <= j
             IN  [kwh_per_unit |-> ff[i].kwh_per_unit,
                  air_m3_per_unit |-> ff[i].air_m3_per_unit]

_add_resources(m, st, kwh, air) ==
    [m EXCEPT !.kwh = DictSet(@, st, DictGet(@, st, 0) + kwh),
              !.air_m3 = DictSet(@, st, DictGet(@, st, 0) + air)]

_reliab_for(station_id) ==
    IF station_id \in DOMAIN cfg.reliability.stations
    THEN cfg.reliability.stations[station_id]
    ELSE cfg.reliability.default

\* random.expovariate(1.0 / mtbf_min): a short and a mean time to failure;
\* float("inf") when mtbf_min <= 0.
TtfDraws(spec) == IF spec.mtbf_min > 0 THEN {1, spec.mtbf_min} ELSE {Inf}

\* random.gauss(mttr_min, mttr_sigma_min) of a "normal" repair time.
RepairDraws(spec) ==
    IF spec.mttr_dist = "normal"
    THEN {spec.mttr_min - spec.mttr_sigma_min, spec.mttr_min,
          spec.mttr_min + spec.mttr_sigma_min}
    ELSE {spec.mttr_min}

_draw_mttr_min(spec, val) ==
    IF spec.mttr_dist = "normal" THEN Max(0, val) ELSE spec.mttr_min

\* A countdown that is not decreased by the job.
TtfAfterNoDecrement(ttf, ct) == ttf

\* ttf -= ct_min, with float("inf") staying infinite.
TtfAfter(ttf, ct) == IF ttf = Inf THEN Inf ELSE ttf - ct

\* Lines 87-91 (166-170): begin processing and wait for the cycle time.
StartProcessing(s, p) ==
    Timeout([s EXCEPT !.metrics = _begin_processing(@, Procs[p].base_id),
                      !.proc[p].start = s.now],
            p, Procs[p].ct, "wait_process")

\* The requested amount of workers_pool.get.
ReserveAmount(p) == Procs[p].wr

\* The station skips the pool when there is none or it needs no worker.
UsesPool(p) == HasPool(cfg) /\ Procs[p].wr > 0

\* Lines 83-85 (162-164): reserve workers.
Reserve(s, p) ==
    IF UsesPool(p) THEN ContainerGet(s, p, ReserveAmount(p), "wait_workers")
    ELSE StartProcessing(s, p)

\* A runner that publishes a token of its own making in place of its input.
OutputFreshToken(s, p) ==
    StorePut([s EXCEPT !.proc[p].item = NoItem], Procs[p].out, p,
             <<"OUT", p, s.now>>, "wait_output")

\* Lines 100 (179): yield output_store.put(item).
Output(s, p) ==
    StorePut([s EXCEPT !.proc[p].item = NoItem], Procs[p].out, p,
             s.proc[p].item, "wait_output")

\* A release of one unit more than was reserved.
ReleaseOneMore(p) == Procs[p].wr + 1

\* The amount handed back by workers_pool.put.
ReleaseAmount(p) == Procs[p].wr

\* The busy time of a job without its start subtracted.
BusyDeltaNoStart(s, p) == s.now

\* busy += (env.now - start)
BusyDelta(s, p) == s.now - s.proc[p].start

\* A runner that keeps its workers when the cycle time has ended.
EndProcessingKeepsWorkers(s, p) ==
    Output([s EXCEPT !.proc[p].busy = @ + BusyDelta(s, p),
                     !.metrics = _end_processing(@, Procs[p].base_id)], p)

\* Lines 92-97 (171-176): end of the cycle time, release of the workers.
EndProcessing(s, p) ==
    LET s1 == [s EXCEPT !.proc[p].busy = @ + BusyDelta(s, p),
                        !.metrics = _end_processing(@, Procs[p].base_id)]
    IN  IF UsesPool(p) THEN ContainerPut(s1, p, ReleaseAmount(p), "wait_release")
        ELSE Output(s1, p)

\* Lines 119-122 (204-207): the metrics update at the end of a loop.
MetricsUpdate(s, p) ==
    LET st == Procs[p].base_id IN
    [s EXCEPT !.metrics.station_output = DictSet(@, st, s.proc[p].produced),
              !.metrics.station_busy_time = DictSet(@, st, s.proc[p].busy),
              !.metrics.station_downtime = DictSet(@, st, s.proc[p].downtime)]

\* run_serial_station, line 81.
SerialIdle(s, p) == StoreGet(s, Procs[p].ins[1], p, "wait_get")

\* A scan that takes from the last non-empty source of the list.
PriorityIdleLastFirst(s, p) ==
    LET ins == Procs[p].ins
        nonempty == {i \in 1..Len(ins) : Len(s.items[ins[i]]) > 0}
    IN  IF nonempty = {} THEN Timeout(s, p, PollDt, "wait_poll")
        ELSE LET i == CHOOSE j \in nonempty : \A k \in nonempty : j >= k
             IN  StoreGet([s EXCEPT !.proc[p].src = ins[i]], ins[i], p, "wait_get")

\* run_priority_station, lines 150-160: the scan in priority order.
PriorityIdle(s, p) ==
    LET ins == Procs[p].ins
        nonempty == {i \in 1..Len(ins) : Len(s.items[ins[i]]) > 0}
    IN  IF nonempty = {} THEN Timeout(s, p, PollDt, "wait_poll")
        ELSE LET i == CHOOSE j \in nonempty : \A k \in nonempty : j <= k
             IN  StoreGet([s EXCEPT !.proc[p].src = ins[i]], ins[i], p, "wait_get")

Idle(s, p) ==
    IF Procs[p].kind = "run_priority_station" THEN PriorityIdle(s, p)
    ELSE SerialIdle(s, p)

\* The source mix with only the first source tagged reman-origin.
MixFirstSourceOnly(s, p) ==
    IF Procs[p].kind = "run_priority_station" /\ Procs[p].base_id = "pressen_1"
    THEN IF s.proc[p].src = Procs[p].ins[1]
         THEN [s EXCEPT !.metrics.pressen1_from_reman = @ + 1]
         ELSE [s EXCEPT !.metrics.pressen1_from_new = @ + 1]
    ELSE s

\* The source mix with the two categories exchanged.
MixSwapped(s, p) ==
    IF Procs[p].kind = "run_priority_station" /\ Procs[p].base_id = "pressen_1"
    THEN IF s.proc[p].src \in {Procs[p].ins[i] : i \in 1..Min(2, Len(Procs[p].ins))}
         THEN [s EXCEPT !.metrics.pressen1_from_new = @ + 1]
         ELSE [s EXCEPT !.metrics.pressen1_from_reman = @ + 1]
    ELSE s

\* Lines 188-193: the source mix of pressen_1.
Mix(s, p) ==
    IF Procs[p].kind = "run_priority_station" /\ Procs[p].base_id = "pressen_1"
    THEN IF s.proc[p].src \in {Procs[p].ins[i] : i \in 1..Min(2, Len(Procs[p].ins))}
         THEN [s EXCEPT !.metrics.pressen1_from_reman = @ + 1]
         ELSE [s EXCEPT !.metrics.pressen1_from_new = @ + 1]
    ELSE s

\* Lines 101-117 (180-202): after the output, the reliability check.
AfterOutput(s, p, ttf_draw, repair_draw) ==
    LET st   == Procs[p].base_id
        ints == station_intensity(st)
        s1   == Mix([s EXCEPT !.proc[p].produced = @ + 1,
                              !.metrics = _add_resources(@, st, ints.kwh_per_unit,
                                                         ints.air_m3_per_unit)], p)
        ttf  == TtfAfter(s.proc[p].ttf, Procs[p].ct)
        repair == _draw_mttr_min(_reliab_for(st), repair_draw)
    IN  IF ttf <= 0
        THEN IF repair > 0
             THEN Timeout([s1 EXCEPT !.proc[p].ttf = ttf, !.proc[p].repair = repair],
                          p, repair, "wait_repair")
             ELSE Idle(MetricsUpdate([s1 EXCEPT !.proc[p].ttf = ttf_draw], p), p)
        ELSE Idle(MetricsUpdate([s1 EXCEPT !.proc[p].ttf = ttf], p), p)

\* run_serial_station and run_priority_station, resumed with the value of
\* the event they waited for.
station(s, p, val, ttf_draw, repair_draw) ==
    LET pc == s.proc[p].pc IN
    CASE pc = "start" -> Idle([s EXCEPT !.proc[p].ttf = ttf_draw], p)
      [] pc = "wait_poll" -> PriorityIdle(s, p)
      [] pc = "wait_get" -> Reserve([s EXCEPT !.proc[p].item = val], p)
      [] pc = "wait_workers" -> StartProcessing(s, p)
      [] pc = "wait_process" -> EndProcessing(s, p)
      [] pc = "wait_release" -> Output(s, p)
      [] pc = "wait_output" -> AfterOutput(s, p, ttf_draw, repair_draw)
      [] pc = "wait_repair" ->
            Idle(MetricsUpdate([s EXCEPT !.proc[p].downtime = @ + s.proc[p].repair,
                                         !.proc[p].repair = 0,
                                         !.proc[p].ttf = ttf_draw], p), p)
      [] OTHER -> s

----------------------------------------------------------------------------
(* run_simulation, lines 204-212: the utilization table. *)

\* round(x, 2) of x = num / den >= 0, in hundredths (ties to even).
Round2(num, den) ==
    LET q == (100 * num) \div den
        r == (100 * num) % den
    IN  IF 2 * r > den \/ (2 * r = den /\ q % 2 = 1) THEN q + 1 ELSE q

\* kpi_stations: "Utilization %" of every station of station_busy_time, in
\* hundredths of a percent.
kpi_stations(m) ==
    LET denom_time == cfg.horizon + cfg.warmdown IN
    [st \in DOMAIN m.station_busy_time |->
        Round2(100 * m.station_busy_time[st], denom_time)]

\* Lines 218-225: the stations with a positive live / peak in-process gauge.
kpi_wip_now(m) ==
    [st \in {x \in DOMAIN m.inproc_now : m.inproc_now[x] > 0} |-> m.inproc_now[st]]

kpi_wip_peak(m) ==
    [st \in {x \in DOMAIN m.inproc_peak : m.inproc_peak[x] > 0} |-> m.inproc_peak[st]]

\* Lines 240-244: the stations with a positive downtime.
kpi_downtime(m) ==
    [st \in {x \in DOMAIN m.station_downtime : m.station_downtime[x] > 0} |->
        m.station_downtime[st]]

\* pd.DataFrame(rows).sort_values(column) of an empty list of rows: the frame
\* has no column to sort by and pandas raises KeyError (lines 222, 225, 244).
SortKeyError(m) ==
    \/ DOMAIN kpi_wip_now(m) = {}
    \/ DOMAIN kpi_wip_peak(m) = {}
    \/ DOMAIN kpi_downtime(m) = {}

Kpis(m) ==
    [kpi_stations |-> kpi_stations(m), kpi_wip_now |-> kpi_wip_now(m),
     kpi_wip_peak |-> kpi_wip_peak(m), kpi_downtime |-> kpi_downtime(m)]

----------------------------------------------------------------------------
(* The steps of a run. *)

Head_ == Head(queue)

NewOrders ==
    /\ Next_is("new_orders_source")
    /\ \E inter \in InterDraws(cfg.new_rate) :
          Commit(new_orders_source(Pop(S), Head_.proc, inter))

Returns ==
    /\ Next_is("returns_source")
    /\ \E dt \in 1..MaxInter, g \in GaussDraws(cfg.batch_mean) :
          Commit(returns_source(Pop(S), Head_.proc, dt, g))

ReverseShortcut ==
    /\ Next_is("reverse_shortcut")
    /\ Commit(reverse_shortcut(Pop(S), Head_.proc, Head_.val))

MergeFeeder ==
    /\ Next_is("reman_merge_feeder")
    /\ Commit(reman_merge_feeder(Pop(S), Head_.proc, Head_.val))

SerialStation ==
    /\ Next_is("run_serial_station")
    /\ LET spec == _reliab_for(Procs[Head_.proc].base_id) IN
       \E ttf \in TtfDraws(spec), r \in RepairDraws(spec) :
          Commit(station(Pop(S), Head_.proc, Head_.val, ttf, r))

PriorityStation ==
    /\ Next_is("run_priority_station")
    /\ LET spec == _reliab_for(Procs[Head_.proc].base_id) IN
       \E ttf \in TtfDraws(spec), r \in RepairDraws(spec) :
          Commit(station(Pop(S), Head_.proc, Head_.val, ttf, r))

SinkConsumer ==
    /\ Next_is("sink_consumer")
    /\ Commit(sink_consumer(Pop(S), Head_.proc))

Sampler ==
    /\ Next_is("sampler")
    /\ Commit(sampler(Pop(S), Head_.proc))

\* env.run(until=horizon) returns and the warm-down run starts.
WarmDown ==
    /\ phase = "run1"
    /\ queue # <<>>
    /\ Head_.kind = "until"
    /\ cfg.warmdown > 0
    /\ LET s == [S EXCEPT !.queue = Tail(@), !.now = Head_.t] IN
       /\ queue' = Schedule(s, Event(cfg.horizon + cfg.warmdown, URGENT, "until",
                                     0, "", NoItem)).queue
       /\ now' = s.now
    /\ phase' = "run2"
    /\ UNCHANGED <<cfg, procs, capacity, items, putq, getq, level, cgetq, cputq,
                   proc, metrics, rows, kpi>>

\* The last env.run returns and the KPIs are computed; run_simulation returns
\* its tables unless building one of them raises.
Finish ==
    /\ Running
    /\ queue # <<>>
    /\ Head_.kind = "until"
    /\ phase = "run1" => cfg.warmdown <= 0
    /\ queue' = Tail(queue)
    /\ now' = Head_.t
    /\ phase' = IF SortKeyError(metrics) THEN "error" ELSE "done"
    /\ kpi' = IF SortKeyError(metrics) THEN kpi ELSE Kpis(metrics)
    /\ UNCHANGED <<cfg, procs, capacity, items, putq, getq, level, cgetq, cputq,
                   proc, metrics, rows>>

Next ==
    \/ NewOrders
    \/ Returns
    \/ ReverseShortcut
    \/ MergeFeeder
    \/ SerialStation
    \/ PriorityStation
    \/ SinkConsumer
    \/ Sampler
    \/ WarmDown
    \/ Finish

Spec == Init /\ [][Next]_vars

\* Runs with contention for the worker pool.
PoolConfigs == {PoolCfg, StuckCfg}
SpecPool == InitOf(PoolConfigs) /\ [][Next]_vars

\* Runs with a long warm-down.
DrainConfigs == {LongWarmDown(BaseCfg), LongWarmDown(SingleCfg), LongWarmDown(StuckCfg)}
SpecDrain == InitOf(DrainConfigs) /\ [][Next]_vars

\* The scenarios of a single station and of a priority station with one
\* source empty.
ScenarioConfigs ==
    {SingleCfg, SingleNoWarmDownCfg, OnlyNewCfg, OnlyRemanCfg, TwoMachinePriorityCfg}
SpecScenario == InitOf(ScenarioConfigs) /\ [][Next]_vars

\* Runs with stations that fail.
FailConfigs == {FailCfg, FailNormalCfg}
SpecFail == InitOf(FailConfigs) /\ [][Next]_vars

\* Runs of forward flows of another shape than the reference line.
ReorderConfigs == {ReorderedCfg, NoSinkCfg}
SpecReorder == InitOf(ReorderConfigs) /\ [][Next]_vars

----------------------------------------------------------------------------
(* Definitions the properties are stated with. *)

RECURSIVE SumF(_)
SumF(f) ==
    IF DOMAIN f = {} THEN 0
    ELSE LET x == CHOOSE y \in DOMAIN f : TRUE
         IN  f[x] + SumF([y \in (DOMAIN f) \ {x} |-> f[y]])

\* The configured capacity of a buffer (999999 for an after_<station> buffer).
ConfiguredCapacity(b) ==
    IF b \in DOMAIN cfg.buffers THEN cfg.buffers[b] ELSE AfterCap

\* A worker request of p that the pool has granted and p has not yet seen.
Granted(p) ==
    /\ proc[p].pc = "wait_workers"
    /\ \A i \in 1..Len(cgetq) : cgetq[i].proc # p

\* The worker units station instance p has reserved and not yet released.
Held(p) ==
    IF UsesPool(p) /\ (proc[p].pc = "wait_process" \/ Granted(p))
    THEN Procs[p].wr ELSE 0

Reserved == SumF([p \in Stations |-> Held(p)])

SourcePids == PidsOf("new_orders_source") \cup PidsOf("returns_source")

\* Tokens stored in the buffers.
InBuffers == SumF([b \in DOMAIN items |-> Len(items[b])])

\* Tokens a process has taken from a buffer and not yet put into the next:
\* delivered by a get not yet seen, held in a local, or in a pending put.
HeldByProcess ==
    Cardinality({i \in 1..Len(queue) : queue[i].kind = "get"})
    + Cardinality({p \in DOMAIN proc : proc[p].item # NoItem})
    + SumF([b \in DOMAIN putq |->
              Cardinality({i \in 1..Len(putq[b]) : putq[b][i].proc \notin SourcePids})])

\* Tokens a source has enqueued whose put it has not yet been resumed from
\* (the arrival counter is incremented after the yield).
Unacknowledged ==
    Cardinality({i \in 1..Len(queue) :
                    queue[i].kind = "put" /\ queue[i].proc \in SourcePids})

\* Both env.run calls have returned (the tables may or may not be built).
RunEnded ==
    /\ phase \in {"done", "error"}
    /\ procs # <<>>
    /\ now = cfg.horizon + cfg.warmdown

NewPid == CHOOSE p \in PidsOf("new_orders_source") : TRUE
ReturnsPid == CHOOSE p \in PidsOf("returns_source") : TRUE

----------------------------------------------------------------------------
(* The properties. *)

\* C1: in every reachable state every buffer, configured or auto-created,
\* holds between 0 and its capacity tokens.
BufferWithinCapacity ==
    \A b \in DOMAIN items :
        Len(items[b]) >= 0 /\ Len(items[b]) <= ConfiguredCapacity(b)

\* C1 witness: warenannahme is full with a put waiting for space, after the
\* primary source has dropped a token at a full neu_lager.
BufferFullAndBlocked ==
    /\ Running
    /\ Len(items["warenannahme"]) = ConfiguredCapacity("warenannahme")
    /\ putq["warenannahme"] # <<>>
    /\ metrics.lost_new_due_to_neu_lager_full > 0

\* C2: the worker pool keeps 0 <= available <= total and
\* available + reserved = total, where a station instance has reserved
\* workers_required units from the grant of its request to its release.
WorkerPoolConserved ==
    /\ 0 <= level
    /\ level <= cfg.workers_total
    /\ level + Reserved = cfg.workers_total

\* C2 witness: a station holds the only worker while another waits for it.
WorkerContention ==
    /\ Running
    /\ level = 0
    /\ cgetq # <<>>
    /\ \E p \in Stations : proc[p].pc = "wait_process" /\ Held(p) = Procs[p].wr

\* C3: no station instance is in Processing holding fewer worker units than
\* its workers_required, for every workers_total, 0 included.
ProcessingHoldsWorkers ==
    phase # "error" =>
        \A p \in Stations : proc[p].pc = "wait_process" => Held(p) >= Procs[p].wr

UtilizationInRange ==
    phase = "done" =>
        \A st \in DOMAIN kpi.kpi_stations :
            kpi.kpi_stations[st] >= 0 /\ kpi.kpi_stations[st] <= 10000

\* C6 witness: a utilization is reported for pressen_2, both of whose
\* machines have been busy.
UtilizationOfParallelMachines ==
    /\ phase = "done"
    /\ "pressen_2" \in DOMAIN kpi.kpi_stations
    /\ kpi.kpi_stations["pressen_2"] > 0
    /\ \A p \in PidsOf("run_serial_station") :
          procs[p].base_id = "pressen_2" => proc[p].busy > 0
    /\ Cardinality({p \in PidsOf("run_serial_station") :
                       procs[p].base_id = "pressen_2"}) > 1

\* One step of the primary source that generates a token: the try-put.
TryPutStep ==
    LET neu == items["neu_lager"]
        token == <<"NEW", proc[NewPid].n + 1, now'>>
    IN  IF Len(neu) < ConfiguredCapacity("neu_lager")
        THEN /\ items'["neu_lager"] = Append(neu, token)
             /\ putq'["neu_lager"] = <<>>
             /\ proc'[NewPid].pc = "wait_put"
             /\ \E i \in 1..Len(queue') :
                   /\ queue'[i].kind = "put"
                   /\ queue'[i].proc = NewPid
                   /\ queue'[i].t = now'
             /\ metrics' = metrics
        ELSE /\ items' = items
             /\ putq' = putq
             /\ proc'[NewPid].pc \in {"wait_arrival", "wait_cutoff", "done"}
             /\ metrics' = [metrics EXCEPT !.lost_new_due_to_neu_lager_full = @ + 1]

\* The step that resumes the primary source from its put.
TryPutAcknowledged ==
    /\ now' = now
    /\ metrics' = [metrics EXCEPT !.arrivals_new = @ + 1]
    /\ proc'[NewPid].pc \in {"wait_arrival", "wait_cutoff", "done"}

\* C7: a token generated by the primary source is enqueued at once if
\* neu_lager has room, and then counted in arrivals_new at the same instant
\* with the loss counter unchanged; otherwise buffer and arrivals_new stay
\* unchanged and the loss counter increases by 1.  It is never left waiting.
TryPutNeverWaits ==
    [][ /\ (Next_is("new_orders_source") /\ proc[NewPid].pc = "wait_arrival")
            => TryPutStep
        /\ (Next_is("new_orders_source") /\ proc[NewPid].pc = "wait_put")
            => TryPutAcknowledged ]_vars

\* C7 witness: the primary source has both enqueued and dropped tokens.
EnqueuedAndDropped ==
    /\ Running
    /\ metrics.arrivals_new > 0
    /\ metrics.lost_new_due_to_neu_lager_full > 0

\* C8: with a neu_lager capacity of 0 the run executes, neu_lager stays
\* empty, every primary arrival is lost and no new-origin token is consumed.
ZeroCapacityLosesAll ==
    cfg.buffers["neu_lager"] = 0 =>
        /\ phase # "error"
        /\ items["neu_lager"] = <<>>
        /\ metrics.arrivals_new = 0
        /\ metrics.pressen1_from_new = 0

\* C9: every token of the primary source is created strictly before the
\* cutoff stop_at = max(0, horizon - route time).
NewTokensBeforeCutoff ==
    \A b \in DOMAIN items : \A i \in 1..Len(items[b]) :
        items[b][i][1] = "NEW" => items[b][i][3] < stop_new_at(cfg)

\* C10: at or after the horizon no returns token is created or enqueued and
\* arrivals_returns does not change.
NoReturnsFromHorizon ==
    [][ (Running /\ now' >= cfg.horizon) =>
            /\ metrics'.arrivals_returns = metrics.arrivals_returns
            /\ proc'[ReturnsPid].n = proc[ReturnsPid].n ]_vars

\* The processes with a pending wake-up in queue q.
Pending(q) == {q[i].proc : i \in 1..Len(q)} \ {0}

\* The position of the wake-up of process p in q.
PosOf(q, p) == CHOOSE i \in 1..Len(q) : q[i].proc = p

\* One step of the environment: it processes the earliest pending event, the
\* wake-ups left pending keep their order, and a wake-up scheduled by the
\* step comes after the pending wake-ups of the same instant.
FifoStep ==
    LET old == Tail(queue) IN
    /\ now' >= now
    /\ now' = Head(queue).t
    /\ \A i \in 1..Len(queue) : queue[i].t >= Head(queue).t
    /\ \A p \in Pending(old) : \A q \in Pending(queue') \ {p} :
          LET ep == old[PosOf(old, p)] IN
          /\ p \in Pending(queue')
          /\ queue'[PosOf(queue', p)] = ep
          /\ (q \in Pending(old) /\ PosOf(old, p) < PosOf(old, q))
                => PosOf(queue', p) < PosOf(queue', q)
          /\ (q \notin Pending(old) /\ queue'[PosOf(queue', q)].t = ep.t)
                => PosOf(queue', p) < PosOf(queue', q)

\* C11: wake-ups scheduled for the same instant are processed in the order in
\* which they were scheduled; the clock never goes back and no wake-up is
\* processed before an earlier-timed pending one.
WakeupsInScheduledOrder == [][FifoStep]_vars

\* C11 witness: after the start, two processes have wake-ups pending for the
\* same instant, and a third one for a later instant.
SameInstantWakeups ==
    /\ Running
    /\ now > 0
    /\ \E i, j, k \in 1..Len(queue) :
          /\ i < j /\ j < k
          /\ queue[i].proc # 0 /\ queue[j].proc # 0 /\ queue[k].proc # 0
          /\ queue[i].t = queue[j].t /\ queue[i].prio = queue[j].prio
          /\ queue[j].t < queue[k].t

\* The amounts of the first k requests of a queue of the pool.
RECURSIVE Amounts(_, _)
Amounts(q, k) == IF k = 0 THEN 0 ELSE q[k].amount + Amounts(q, k - 1)

\* One step seen from the worker pool: the requests granted by the step are
\* the first ones of the queue (with the request the step may have added at
\* its end), each takes exactly its amount from the pool, and the pool is
\* never overdrawn.
GrantStep ==
    \/ /\ cgetq' = cgetq
       /\ level' >= level
    \/ \E ext \in {cgetq} \cup {Append(cgetq, [proc |-> p, amount |-> Procs[p].wr]) :
                                  p \in Stations} :
       \E k \in 0..Len(ext) :
          /\ cgetq' = SubSeq(ext, k + 1, Len(ext))
          /\ level' = level - Amounts(ext, k)
          /\ level' >= 0
          /\ \A i \in 1..k : \E j \in 1..Len(queue') :
                queue'[j].kind = "cget" /\ queue'[j].proc = ext[i].proc

\* C12: waiting reservations are granted in the order in which they began
\* waiting: a step grants the head of the queue before it looks at the next,
\* never a later request while an earlier one is pending, and every granted
\* unit leaves the pool exactly once.
WorkersGrantedInOrder == [][GrantStep]_vars

\* C12 witness: two requests wait; the first needs both workers, the second
\* one, and one worker is free: the second is held back behind the first.
LaterRequestHeldBack ==
    /\ Running
    /\ Len(cgetq) >= 2
    /\ cgetq[1].amount > level
    /\ cgetq[2].amount <= level
    /\ cfg = PoolCfg

\* C13: a station suspended on the worker pool is resumed once capacity
\* frees: while a reservation waits, some station holds units it will
\* release, or a release is about to be passed on to the queue.  (With the
\* whole pool free and no release pending, nothing is left that could
\* resume a reservation still waiting: it waits for ever.)
WaitingReservationResolves ==
    cgetq # <<>> =>
        \/ Reserved > 0
        \/ \E i \in 1..Len(queue) : queue[i].kind = "cput"

\* All stock has been delivered: the buffers are empty, no process holds a
\* token and every arrival counted has been counted at the sink.
Drained ==
    /\ InBuffers = 0
    /\ HeldByProcess = 0
    /\ metrics.throughput_kunde = metrics.arrivals_new + metrics.arrivals_returns

\* C14: once both sources have stopped and the clock keeps advancing, every
\* token admitted reaches the sink: after a warm-down of four times the
\* horizon the line is drained.
DrainedAfterWarmDown == RunEnded => Drained

\* C15: with both arrival rates 0 the run completes, and in every state
\* nothing has arrived, nothing is lost, the buffers are empty and no station
\* is in process.
QuietRunCompletes ==
    (cfg.new_rate = 0 /\ cfg.ret_inter = 0) =>
        /\ phase # "error"
        /\ metrics.throughput_kunde = 0
        /\ metrics.arrivals_new = 0
        /\ metrics.arrivals_returns = 0
        /\ metrics.lost_new_due_to_neu_lager_full = 0
        /\ InBuffers = 0
        /\ \A st \in DOMAIN metrics.inproc_now : metrics.inproc_now[st] = 0

\* The configuration has a single forward station and no failures.
SingleStationNoFailure ==
    /\ Len(cfg.forward_flow) = 2
    /\ cfg.forward_flow[1].type = "process"
    /\ cfg.forward_flow[1].machines = 1
    /\ cfg.reliability = [default |-> NoFailure, stations |-> EmptyDict]

\* C16: with a single forward station and no failures run_simulation
\* completes and returns a downtime table without rows; in general the table
\* has exactly the stations with a downtime > 0.
DowntimeTableEmpty ==
    /\ (RunEnded /\ SingleStationNoFailure) =>
            (phase = "done" /\ DOMAIN kpi.kpi_downtime = {})
    /\ phase = "done" =>
            DOMAIN kpi.kpi_downtime =
                {st \in DOMAIN metrics.station_downtime :
                    metrics.station_downtime[st] > 0}

\* C17: with a single forward station and no failures the utilization of the
\* station (in hundredths of a percent) is
\* min(100, arrivals * cycle_time / (horizon + warm-down) * 100), arrivals
\* being the tokens admitted to its input buffer.
SingleStationUtilization ==
    (RunEnded /\ SingleStationNoFailure) =>
        LET st   == cfg.forward_flow[1]
            util == kpi_stations(metrics)
        IN  /\ st.id \in DOMAIN util
            /\ util[st.id] =
                  Min(10000,
                      Round2(100 * metrics.arrivals_new
                                 * (st.cycle_time_s \div SecPerTick),
                             cfg.horizon + cfg.warmdown))

\* The priority station of the line.
PriorityPid == CHOOSE p \in PidsOf("run_priority_station") : TRUE

\* C18: when lager1 and lager2 stay empty during the whole run, every token
\* the priority station has processed is counted as new-origin and the reman
\* counter stays 0; when neu_lager stays empty, every token is counted as
\* reman-origin and the new-origin counter stays 0.
MixFollowsPopulatedSource ==
    /\ cfg = OnlyNewCfg =>
          /\ items["lager1"] = <<>> /\ items["lager2"] = <<>>
          /\ metrics.pressen1_from_reman = 0
          /\ metrics.pressen1_from_new = proc[PriorityPid].produced
    /\ cfg = OnlyRemanCfg =>
          /\ items["neu_lager"] = <<>>
          /\ metrics.pressen1_from_new = 0
          /\ metrics.pressen1_from_reman = proc[PriorityPid].produced

\* C18 witness: with neu_lager empty throughout, the priority station has
\* processed tokens of lager1 and of lager2.
RemanOnlyProcessed ==
    /\ cfg = OnlyRemanCfg
    /\ RunEnded
    /\ metrics.pressen1_from_reman >= 2

\* The runner instances of a station.
InstancesOf(st) == {p \in Stations : Procs[p].base_id = st}

\* The first runner instance of a station.
Owner(st) == CHOOSE p \in InstancesOf(st) : \A q \in InstancesOf(st) : p <= q

\* The step runs the metrics update of runner instance p (lines 119-122,
\* 204-207): p is resumed from its output, or from its repair, and reaches
\* the end of its loop.
WritesStationMetrics(p) ==
    /\ Running
    /\ Head(queue).proc = p
    /\ proc[p].pc \in {"wait_output", "wait_repair"}
    /\ proc'[p].pc # "wait_repair"

\* C19: every entry of station_output, station_busy_time and
\* station_downtime is written by one process only, the same at every write,
\* also for a station with several machines.
SingleWriterPerKey ==
    [][ \A p \in Stations : WritesStationMetrics(p) => p = Owner(Procs[p].base_id) ]_vars

\* C20: at the end of a run station_downtime of every station is the sum of
\* the repair durations its runner instances have completed.
DowntimeAccounted ==
    RunEnded =>
        \A st \in {Procs[p].base_id : p \in Stations} :
            DictGet(metrics.station_downtime, st, 0)
                = SumF([p \in InstancesOf(st) |-> proc[p].downtime])

\* The sections run_simulation and its processes read with cfg[...].
NeededSections == {"meta", "resources", "buffers", "forward_flow", "arrivals"}

\* C21: a configuration that lacks a section the engine needs is rejected by
\* load_config before any process is created: no run creates its processes
\* and then fails on the missing section.
DefectReportedAtLoad ==
    (NeededSections \ cfg.sections # {} /\ phase = "error") => procs = <<>>

\* The states of a station instance, by the yield it is suspended at.
StateOf(pc) ==
    CASE pc = "wait_get" -> "Idle"
      [] pc = "wait_poll" -> "Idle"
      [] pc = "wait_workers" -> "Reserving-Workers"
      [] pc = "wait_process" -> "Processing"
      [] pc = "wait_release" -> "Releasing-Workers"
      [] pc = "wait_output" -> "Publishing"
      [] pc = "wait_repair" -> "Reliability-Check"
      [] OTHER -> "Start"

\* The token tok of instance p is put to the output buffer of p by the step.
Published(p, tok) ==
    LET out == Procs[p].out IN
    /\ tok # NoItem
    /\ \/ items'[out] = Append(items[out], tok)
       \/ putq'[out] = Append(putq[out], [proc |-> p, item |-> tok])

\* One step seen from serial instance p: when p is resumed it moves to the
\* next state of its cycle.  Reserving-Workers and Releasing-Workers are
\* suspension points of a station that reserves from the pool, and are
\* passed at once otherwise; Reliability-Check suspends only for a repair.
\* The token taken in Idle is kept until Publishing puts it to the output.
CycleStep(p) ==
    LET a == StateOf(proc[p].pc)
        b == StateOf(proc'[p].pc)
    IN  IF proc'[p].pc = proc[p].pc
        THEN proc'[p].item = proc[p].item
        ELSE CASE a = "Start" -> b = "Idle" /\ proc'[p].item = NoItem
               [] a = "Idle" ->
                     /\ b = IF UsesPool(p) THEN "Reserving-Workers" ELSE "Processing"
                     /\ Head(queue).kind = "get"
                     /\ Head(queue).res = Procs[p].ins[1]
                     /\ proc'[p].item = Head(queue).val
                     /\ proc'[p].item # NoItem
               [] a = "Reserving-Workers" ->
                     b = "Processing" /\ proc'[p].item = proc[p].item
               [] a = "Processing" ->
                     IF UsesPool(p)
                     THEN b = "Releasing-Workers" /\ proc'[p].item = proc[p].item
                     ELSE b = "Publishing" /\ Published(p, proc[p].item)
               [] a = "Releasing-Workers" ->
                     b = "Publishing" /\ Published(p, proc[p].item)
               [] a = "Publishing" ->
                     b \in {"Reliability-Check", "Idle"} /\ proc'[p].item = NoItem
               [] a = "Reliability-Check" -> b = "Idle" /\ proc'[p].item = NoItem
               [] OTHER -> FALSE

\* C22: every serial station instance goes through its states in the order
\* Idle, Reserving-Workers, Processing, Releasing-Workers, Publishing,
\* Reliability-Check, Idle, and publishes the token it took in Idle.
SerialCycleInOrder ==
    [][ \A p \in PidsOf("run_serial_station") : CycleStep(p) ]_vars

\* C22 witness: a serial instance has published a token that has reached
\* the sink, has been repaired and is Idle again.
CycleCompletedWithRepair ==
    \E p \in PidsOf("run_serial_station") :
        /\ Running
        /\ proc[p].pc = "wait_get"
        /\ proc[p].produced >= 1
        /\ proc[p].downtime >= 1
        /\ UsesPool(p)
        /\ metrics.throughput_kunde >= 1

\* The step resumes the priority station p and p reaches its scan.
ScansSources(p) ==
    /\ Running
    /\ Head(queue).proc = p
    /\ proc[p].pc \in {"start", "wait_poll", "wait_output", "wait_repair"}
    /\ proc'[p].pc \in {"wait_get", "wait_poll"}

\* The scan of the step: the head of the first non-empty source in priority
\* order is taken and delivered to p, the other sources are left alone; with
\* every source empty nothing is taken and p waits for the polling interval.
TakesFirstNonEmpty(p) ==
    LET ins == Procs[p].ins
        nonempty == {i \in 1..Len(ins) : items[ins[i]] # <<>>}
    IN  IF nonempty = {}
        THEN /\ proc'[p].pc = "wait_poll"
             /\ \A i \in 1..Len(ins) : items'[ins[i]] = <<>>
             /\ \E j \in 1..Len(queue') :
                   /\ queue'[j].proc = p
                   /\ queue'[j].kind = "timeout"
                   /\ queue'[j].t = now' + PollDt
        ELSE \E i \in nonempty :
             /\ \A k \in 1..(i - 1) : items[ins[k]] = <<>>
             /\ proc'[p].pc = "wait_get"
             /\ proc'[p].src = ins[i]
             /\ items'[ins[i]] = Tail(items[ins[i]])
             /\ \A k \in 1..Len(ins) : k # i => items'[ins[k]] = items[ins[k]]
             /\ \E j \in 1..Len(queue') :
                   /\ queue'[j].proc = p
                   /\ queue'[j].kind = "get"
                   /\ queue'[j].t = now'
                   /\ queue'[j].val = Head(items[ins[i]])

\* C23: whenever the priority station takes a token it takes it from the
\* first buffer of lager1, lager2, neu_lager that is non-empty at that
\* instant; with all three empty it takes nothing and rescans after the
\* polling interval; and no token leaves these buffers in any other way.
PriorityOrderRespected ==
    [][ \A p \in PidsOf("run_priority_station") :
          /\ ScansSources(p) => TakesFirstNonEmpty(p)
          /\ \A i \in 1..Len(Procs[p].ins) :
                Len(items'[Procs[p].ins[i]]) < Len(items[Procs[p].ins[i]])
                    => ScansSources(p) ]_vars

\* C23 witness: the priority station has just taken a token of lager1 while
\* lager2 and neu_lager hold tokens, after it has published an earlier one.
TookHighestWithLowerWaiting ==
    /\ Running
    /\ proc[PriorityPid].pc = "wait_get"
    /\ proc[PriorityPid].src = "lager1"
    /\ items["lager2"] # <<>>
    /\ items["neu_lager"] # <<>>
    /\ proc[PriorityPid].produced >= 1

FeederPid == CHOOSE p \in PidsOf("reman_merge_feeder") : TRUE

\* A put request of process p is pending at buffer b.
PutPending(b, p) == \E i \in 1..Len(putq[b]) : putq[b][i].proc = p

\* The tokens the merge feeder has deposited into lager1 and lager2: its
\* completed puts and the put it has not yet been resumed from.
DepositedReman ==
    proc[FeederPid].n
    + (IF /\ proc[FeederPid].pc = "wait_put"
          /\ ~PutPending("lager1", FeederPid)
          /\ ~PutPending("lager2", FeederPid)
       THEN 1 ELSE 0)

\* The tokens the primary source has deposited into neu_lager.
DepositedNew ==
    metrics.arrivals_new + (IF proc[NewPid].pc = "wait_put" THEN 1 ELSE 0)

\* The tokens the priority station has taken from lager1 or lager2, and from
\* neu_lager: those deposited that are no longer there.
TakenReman == DepositedReman - Len(items["lager1"]) - Len(items["lager2"])
TakenNew == DepositedNew - Len(items["neu_lager"])

\* The priority station has taken a token of buffer b that it has not yet
\* published (it is resumed from the put to its output buffer after it).
InHand(b) ==
    IF /\ proc[PriorityPid].pc \in {"wait_get", "wait_workers", "wait_process",
                                    "wait_release", "wait_output"}
       /\ proc[PriorityPid].src = b
    THEN 1 ELSE 0

TargetOf(k) == IF k % 2 = 1 THEN "lager1" ELSE "lager2"

\* One step seen from the merge feeder: resumed with the k-th token it has
\* taken from reman_lager, the k-th return, it puts it to lager1 if k is odd
\* and to lager2 if k is even: into the buffer if it has room, into its put
\* queue, to wait there, if it is full.  The other buffer gets nothing.  In
\* the state reached lager1 holds odd-numbered and lager2 even-numbered
\* returns only.
AlternateStep ==
    /\ (Running /\ Head(queue).proc = FeederPid /\ proc[FeederPid].pc = "wait_get") =>
          LET k     == proc[FeederPid].n + 1
              tok   == Head(queue).val
              tgt   == TargetOf(k)
              other == TargetOf(k + 1)
          IN  /\ tok = <<"RET", k>>
              /\ proc'[FeederPid].pc = "wait_put"
              /\ IF Len(items[tgt]) < ConfiguredCapacity(tgt)
                 THEN items'[tgt] = Append(items[tgt], tok) /\ putq'[tgt] = <<>>
                 ELSE /\ items'[tgt] = items[tgt]
                      /\ putq'[tgt] = <<[proc |-> FeederPid, item |-> tok]>>
              /\ Len(items'[other]) <= Len(items[other])
              /\ putq'[other] = <<>>
    /\ (Running /\ Head(queue).proc = FeederPid /\ proc[FeederPid].pc = "wait_put") =>
          proc'[FeederPid].n = proc[FeederPid].n + 1
    /\ \A b \in {"lager1", "lager2"} :
          /\ \A i \in 1..Len(items'[b]) :
                items'[b][i][1] = "RET" /\ TargetOf(items'[b][i][2]) = b
          /\ \A i \in 1..Len(putq'[b]) : TargetOf(putq'[b][i].item[2]) = b

\* C25: the merge feeder alternates strictly, starting with lager1: its
\* k-th token goes to lager1 if k is odd and to lager2 if k is even,
\* whatever the fill levels, and it waits for a full target buffer.
FeederAlternates == [][AlternateStep]_vars

\* C25 witness: the feeder waits with its fourth token or a later one for
\* the full lager2 while lager1 is empty.
FeederWaitsForFullTarget ==
    /\ Running
    /\ proc[FeederPid].pc = "wait_put"
    /\ PutPending("lager2", FeederPid)
    /\ items["lager1"] = <<>>
    /\ proc[FeederPid].n >= 3

ShortcutPid == CHOOSE p \in PidsOf("reverse_shortcut") : TRUE

\* The tokens the reverse shortcut holds: delivered by a get it has not yet
\* seen, in its local, or in its pending put to reman_lager.
HeldByShortcut(q, pr, pq) ==
    SelectSeq(q, LAMBDA e : e.kind = "get" /\ e.proc = ShortcutPid)
    \o (IF pr[ShortcutPid].item # NoItem THEN <<pr[ShortcutPid]>> ELSE <<>>)
    \o SelectSeq(pq["reman_lager"], LAMBDA r : r.proc = ShortcutPid)

\* The numbers of the returns from reman_lager back to the put queue of
\* warenannahme, through the shortcut.
ReverseLine(q, it, pr, pq) ==
    [i \in 1..Len(it["reman_lager"]) |-> it["reman_lager"][i][2]]
    \o [i \in 1..Len(SelectSeq(pq["reman_lager"], LAMBDA r : r.proc = ShortcutPid)) |->
           SelectSeq(pq["reman_lager"], LAMBDA r : r.proc = ShortcutPid)[i].item[2]]
    \o (IF pr[ShortcutPid].item # NoItem THEN <<pr[ShortcutPid].item[2]>> ELSE <<>>)
    \o [i \in 1..Len(SelectSeq(q, LAMBDA e : e.kind = "get" /\ e.proc = ShortcutPid)) |->
           SelectSeq(q, LAMBDA e : e.kind = "get" /\ e.proc = ShortcutPid)[i].val[2]]
    \o [i \in 1..Len(it["warenannahme"]) |-> it["warenannahme"][i][2]]
    \o [i \in 1..Len(pq["warenannahme"]) |-> pq["warenannahme"][i].item[2]]

Increasing(f) == \A i, j \in 1..Len(f) : i < j => f[i] < f[j]

\* One step seen from the reverse shortcut.  Resumed with a token, at the
\* instant the token was removed from warenannahme, it keeps the token and
\* waits for the delay; resumed from the delay it puts that token to
\* reman_lager, with no request for a further token pending; it asks for the
\* next token when it is resumed from the put.  In the state reached it
\* holds at most one token and the returns are in the order of their numbers.
ShortcutStep ==
    LET p == ShortcutPid IN
    /\ (Running /\ Head(queue).proc = p /\ proc[p].pc = "wait_get") =>
          /\ Head(queue).kind = "get" /\ Head(queue).res = "warenannahme"
          /\ proc'[p].item = Head(queue).val
          /\ proc'[p].pc = "wait_delay"
          /\ \E j \in 1..Len(queue') :
                queue'[j] = Event(now' + cfg.shortcut_delay, NORMAL, "timeout", p,
                                  "", NoItem)
          /\ items'["reman_lager"] = items["reman_lager"]
          /\ putq'["reman_lager"] = putq["reman_lager"]
    /\ (Running /\ Head(queue).proc = p /\ proc[p].pc = "wait_delay") =>
          /\ Head(queue).kind = "timeout"
          /\ proc'[p].pc = "wait_put"
          /\ \/ items'["reman_lager"] = Append(items["reman_lager"], proc[p].item)
             \/ putq'["reman_lager"] =
                    Append(putq["reman_lager"], [proc |-> p, item |-> proc[p].item])
          /\ getq'["warenannahme"] = <<>>
    /\ (Running /\ Head(queue).proc = p /\ proc[p].pc = "wait_put") =>
          /\ Head(queue).kind = "put" /\ Head(queue).res = "reman_lager"
          /\ proc'[p].pc = "wait_get"
    /\ Len(HeldByShortcut(queue', proc', putq')) <= 1
    /\ (getq'["warenannahme"] # <<>>) =>
          HeldByShortcut(queue', proc', putq') = <<>>
    /\ Increasing(ReverseLine(queue', items', proc', putq'))

\* C26: the reverse shortcut holds at most one token at any time, takes the
\* next from warenannahme only after it has placed the previous one into
\* reman_lager, and places each token into reman_lager no earlier than the
\* delay after its removal from warenannahme, in the order of removal.
ShortcutSequential == [][ShortcutStep]_vars

\* C26 witness: the shortcut waits with a token for the full reman_lager
\* while the next return waits in warenannahme and a further one for room
\* in warenannahme.
ShortcutHoldsOneWithOthersWaiting ==
    /\ Running
    /\ proc[ShortcutPid].pc = "wait_put"
    /\ PutPending("reman_lager", ShortcutPid)
    /\ items["warenannahme"] # <<>>
    /\ putq["warenannahme"] # <<>>

\* The returns the source has enqueued and not yet counted.
UnackReturns(q) ==
    Cardinality({i \in 1..Len(q) : q[i].kind = "put" /\ q[i].proc = ReturnsPid})

\* One step seen from the returns source and warenannahme.  A unit the
\* source creates goes into warenannahme, or into its put queue if
\* warenannahme is full, and the source, suspended on the put, creates
\* nothing while a unit waits there.  A waiting unit leaves the put queue only into
\* the buffer.  arrivals_returns is incremented when the source is resumed
\* from a completed put.  In the state reached every unit created is counted,
\* or enqueued and about to be counted, or waiting; at the end of the run
\* the counter is the number of units enqueued.
ReturnsBlockingStep ==
    LET wa == "warenannahme"
        R  == ReturnsPid
        tok == <<"RET", proc[R].n + 1>>
    IN
    /\ proc'[R].n # proc[R].n =>
          /\ proc'[R].n = proc[R].n + 1
          /\ putq[wa] = <<>>
          /\ proc'[R].pc = "wait_put"
          /\ \/ /\ items'[wa] # <<>>
                /\ items'[wa][Len(items'[wa])] = tok
                /\ putq'[wa] = <<>>
             \/ /\ putq'[wa] = <<[proc |-> R, item |-> tok]>>
                /\ Len(items'[wa]) = ConfiguredCapacity(wa)
                /\ \A i \in 1..Len(items'[wa]) : items'[wa][i] # tok
    /\ (putq[wa] # <<>> /\ putq'[wa] # putq[wa]) =>
          /\ putq'[wa] = Tail(putq[wa])
          /\ items'[wa] # <<>>
          /\ items'[wa][Len(items'[wa])] = Head(putq[wa]).item
    /\ putq'[wa] # <<>> => (proc'[R].pc = "wait_put" /\ Len(putq'[wa]) = 1)
    /\ metrics'.arrivals_returns # metrics.arrivals_returns =>
          /\ metrics'.arrivals_returns = metrics.arrivals_returns + 1
          /\ Head(queue).kind = "put" /\ Head(queue).proc = R
    /\ procs # <<>> =>
          metrics'.arrivals_returns + UnackReturns(queue') + Len(putq'[wa])
              = proc'[R].n
    /\ RunEnded' =>
          metrics'.arrivals_returns = proc'[R].n - Len(putq'[wa])

\* C27: the returns source never drops a token: every unit of a batch is
\* put into warenannahme with a blocking put, one after another; at a full
\* warenannahme the source is suspended and generates nothing until there
\* is room; arrivals_returns counts the returns enqueued.
ReturnsNeverDropped == [][ReturnsBlockingStep]_vars

\* C27 witness: the source is suspended with the first unit of a batch of
\* two at the full warenannahme, having counted earlier returns.
ReturnsSourceSuspended ==
    /\ Running
    /\ putq["warenannahme"] # <<>>
    /\ Len(items["warenannahme"]) = ConfiguredCapacity("warenannahme")
    /\ proc[ReturnsPid].left >= 1
    /\ metrics.arrivals_returns >= 1

\* One step seen from the primary source.  It terminates at the cutoff and
\* at no other time, and stays terminated; when it gives up an arrival it
\* has a wake-up pending for the cutoff; at the end of a run whose cutoff
\* lies before the horizon it has terminated; with a cutoff of 0 it has
\* generated nothing.
CutoffStep ==
    LET N == NewPid
        stop_at == stop_new_at(cfg)
    IN  procs # <<>> =>
        /\ (proc[N].pc # "done" /\ proc'[N].pc = "done") => now' = stop_at
        /\ proc[N].pc = "done" => proc'[N] = proc[N]
        /\ proc'[N].pc = "wait_cutoff" =>
              \E j \in 1..Len(queue') :
                 queue'[j] = Event(stop_at, NORMAL, "timeout", N, "", NoItem)
        /\ proc'[N].pc = "wait_arrival" =>
              \E j \in 1..Len(queue') :
                 /\ queue'[j].proc = N /\ queue'[j].kind = "timeout"
                 /\ queue'[j].t <= stop_at
        /\ (RunEnded' /\ stop_at < cfg.horizon) => proc'[N].pc = "done"
        /\ stop_at = 0 =>
              /\ proc'[N].n = 0
              /\ metrics'.arrivals_new = 0
              /\ metrics'.lost_new_due_to_neu_lager_full = 0
              /\ (now' > 0 /\ phase' # "error") => proc'[N].pc = "done"

\* C28: the primary source always terminates, at virtual time exactly the
\* cutoff stop_at: when its next arrival would cross the cutoff it
\* advances to the cutoff and stops; with stop_at = 0 it terminates at time
\* 0 without generating a token.
SourceStopsAtCutoff == [][CutoffStep]_vars

\* C28 witness: the primary source has generated tokens and has terminated,
\* the clock being at the cutoff.
SourceTerminatedAtCutoff ==
    /\ Running
    /\ stop_new_at(cfg) > 0
    /\ proc[NewPid].pc = "done"
    /\ proc[NewPid].n >= 1
    /\ now = stop_new_at(cfg)

\* The input buffers of station instance p hold no request of p and no
\* token is on its way to p.
TakesNothing(p, gq, q) ==
    /\ \A i \in 1..Len(Procs[p].ins) :
          \A j \in 1..Len(gq[Procs[p].ins[i]]) : gq[Procs[p].ins[i]][j] # p
    /\ \A j \in 1..Len(q) : ~(q[j].kind = "get" /\ q[j].proc = p)

\* One step seen from the reliability check of station instance p.
\* Resumed from the put of its token, p decreases its countdown by its cycle
\* time; if the countdown is then <= 0 it waits for a repair time > 0, or
\* goes on at once with a repair time of 0 and a new countdown; otherwise it
\* goes on with the decreased countdown.  Resumed from the repair it adds
\* the repair time to its downtime and draws a new countdown.  The countdown
\* changes in no other step, a job in Processing ends at its cycle time, and
\* a repairing instance has no token and no request for one.
ReliabilityStep(p) ==
    LET spec  == _reliab_for(Procs[p].base_id)
        after == IF proc[p].ttf = Inf THEN Inf ELSE proc[p].ttf - Procs[p].ct
        resumed == Running /\ Head(queue).proc = p
    IN
    /\ (resumed /\ proc[p].pc = "wait_output") =>
          /\ Head(queue).kind = "put" /\ Head(queue).res = Procs[p].out
          /\ proc[p].item = NoItem
          /\ proc'[p].produced = proc[p].produced + 1
          /\ IF after <= 0
             THEN \/ /\ proc'[p].pc = "wait_repair"
                     /\ proc'[p].repair > 0
                     /\ proc'[p].repair \in {Max(0, r) : r \in RepairDraws(spec)}
                     /\ proc'[p].ttf = after
                     /\ proc'[p].downtime = proc[p].downtime
                     /\ \E j \in 1..Len(queue') :
                           queue'[j] = Event(now' + proc'[p].repair, NORMAL,
                                             "timeout", p, "", NoItem)
                  \/ /\ proc'[p].pc \in {"wait_get", "wait_poll"}
                     /\ 0 \in {Max(0, r) : r \in RepairDraws(spec)}
                     /\ proc'[p].ttf \in TtfDraws(spec)
                     /\ proc'[p].downtime = proc[p].downtime
             ELSE /\ proc'[p].pc \in {"wait_get", "wait_poll"}
                  /\ proc'[p].ttf = after
                  /\ proc'[p].downtime = proc[p].downtime
    /\ (resumed /\ proc[p].pc = "wait_repair") =>
          /\ Head(queue).kind = "timeout"
          /\ proc'[p].pc \in {"wait_get", "wait_poll"}
          /\ proc'[p].downtime = proc[p].downtime + proc[p].repair
          /\ proc'[p].ttf \in TtfDraws(spec)
    /\ (resumed /\ proc[p].pc = "wait_process") =>
          /\ Head(queue).kind = "timeout"
          /\ now' = proc[p].start + Procs[p].ct
    /\ ~(resumed /\ proc[p].pc \in {"start", "wait_output", "wait_repair"}) =>
          /\ proc'[p].ttf = proc[p].ttf
          /\ proc'[p].pc # "wait_repair" \/ proc[p].pc = "wait_repair"
    /\ proc'[p].pc = "wait_repair" =>
          /\ proc'[p].item = NoItem
          /\ TakesNothing(p, getq', queue')

\* C29: after each published job the failure countdown is decreased by the
\* job's cycle time; if and only if it is then <= 0 the station suspends for
\* a repair time >= 0 and draws a new countdown.  A failure never interrupts
\* a job in Processing, the token is published before the repair starts and
\* the station takes no token while it is repaired.
FailureBetweenJobs == [][ \A p \in Stations : ReliabilityStep(p) ]_vars

\* C29 witness: a machine of pressen_2 that has failed is repaired, for a
\* drawn time above the mean, while a token is in its input buffer.
RepairingWithInputWaiting ==
    \E p \in PidsOf("run_serial_station") :
        /\ Running
        /\ proc[p].pc = "wait_repair"
        /\ proc[p].repair > _reliab_for(Procs[p].base_id).mttr_min
        /\ items[Procs[p].ins[1]] # <<>>

\* C30: for every process station of the forward flow, the priority station
\* included, as many runner instances are started as it has machines.
RunnersMatchMachines ==
    procs # <<>> =>
        \A i \in 1..Len(cfg.forward_flow) :
            cfg.forward_flow[i].id \in ProcessSteps(cfg) =>
                Cardinality(InstancesOf(cfg.forward_flow[i].id))
                    = cfg.forward_flow[i].machines

\* The runner instances of station st that are in Processing.
InProcessing(pr, st) == {p \in InstancesOf(st) : pr[p].pc = "wait_process"}

\* The gauges in the state a step reaches: inproc_now of every station is
\* the number of its instances in Processing, it is at most inproc_peak,
\* which is at most the number of instances, and inproc_peak has not
\* decreased.
GaugeStep ==
    \A st \in {Procs[p].base_id : p \in Stations} :
        LET n    == DictGet(metrics'.inproc_now, st, 0)
            peak == DictGet(metrics'.inproc_peak, st, 0)
        IN  /\ n = Cardinality(InProcessing(proc', st))
            /\ 0 <= n
            /\ n <= peak
            /\ peak <= Cardinality(InstancesOf(st))
            /\ peak >= DictGet(metrics.inproc_peak, st, 0)

\* C31: in every reachable state inproc_now of a station is the number of
\* its runner instances in Processing, 0 <= inproc_now <= inproc_peak <=
\* number of instances, and inproc_peak never decreases.
GaugeCountsProcessing == [][GaugeStep]_vars

\* C31 witness: both machines of pressen_2 have been in Processing together
\* and one of them still is.
PeakAboveLive ==
    /\ Running
    /\ DictGet(metrics.inproc_peak, "pressen_2", 0) = 2
    /\ DictGet(metrics.inproc_now, "pressen_2", 0) = 1
    /\ Cardinality(InProcessing(proc, "pressen_2")) = 1

\* The tokens the instances of station st have put to its output buffer and
\* been resumed from (their local produced).
TokensAcknowledged(st) == SumF([p \in InstancesOf(st) |-> proc[p].produced])

\* The tokens the instances of station st have put to its output buffer: a
\* put the runner has not yet been resumed from is counted as well.
TokensPut(st) ==
    TokensAcknowledged(st)
    + Cardinality({p \in InstancesOf(st) :
                      proc[p].pc = "wait_output" /\ ~PutPending(Procs[p].out, p)})

\* C32: in every reachable state station_output of a station is the number
\* of tokens all its instances together have put to its output buffer (a put
\* the runner has not yet been resumed from may or may not be counted).
OutputCountsTokensPut ==
    procs # <<>> =>
        \A st \in {Procs[p].base_id : p \in Stations} :
            /\ TokensAcknowledged(st) <= DictGet(metrics.station_output, st, 0)
            /\ DictGet(metrics.station_output, st, 0) <= TokensPut(st)

\* The row the sampler has appended in the step has the time of the step,
\* the depth of every buffer and the gauge of every process station.
SampleStep ==
    rows' # rows =>
        LET row == rows'[Len(rows')] IN
        /\ Len(rows') = Len(rows) + 1
        /\ row.time_min = now'
        /\ DOMAIN row.depth = DOMAIN items'
        /\ \A b \in DOMAIN items' : row.depth[b] = Len(items'[b])
        /\ \A st \in {Procs[p].base_id : p \in Stations} :
              /\ st \in DOMAIN row.inproc
              /\ row.inproc[st] = Cardinality(InProcessing(proc', st))

\* C33: every row the sampler records, the first row at time 0 included, has
\* the simulated time, the current depth of every buffer and the current
\* in-process gauge of every process station of the topology.
RowHasEveryGauge == [][SampleStep]_vars

\* run_simulation, lines 228-232: the stage pairs of the delta estimate.
stage_pairs ==
    << <<"pressen_1", "pressen_2">>, <<"pressen_2", "pressen_3">>,
       <<"pressen_3", "pressen_4">>, <<"pressen_4", "fuegen_1">>,
       <<"fuegen_1", "magnetisieren">>, <<"magnetisieren", "schrauben_1">>,
       <<"schrauben_1", "fuegen_2">>, <<"fuegen_2", "schrauben_2">>,
       <<"schrauben_2", "pruefstand">> >>

\* Lines 233-234: sum(max(0, so.get(a, 0) - so.get(b, 0)) for a, b in stage_pairs).
est_wip_total(m) ==
    LET so == m.station_output IN
    SumF([i \in 1..Len(stage_pairs) |->
            Max(0, DictGet(so, stage_pairs[i][1], 0)
                   - DictGet(so, stage_pairs[i][2], 0))])

\* Line 219: sum(v for v in inproc_now.values() if v > 0).
live_wip_total(m) ==
    SumF([st \in {x \in DOMAIN m.inproc_now : m.inproc_now[x] > 0} |->
            m.inproc_now[st]])

\* C34: at the end of every run the delta estimate of the work in process,
\* computed from the output counts of consecutive stages, equals the live
\* in-station work in process, the sum of inproc_now over all stations.
WipEstimatesAgree ==
    phase = "done" => est_wip_total(metrics) = live_wip_total(metrics)

\* The buffers process p takes tokens from.
InputsOf(p) == {Procs[p].ins[i] : i \in 1..Len(Procs[p].ins)}

\* The i-th step of the forward flow takes its input from the output buffer
\* of the step before it, the first from neu_lager.
TakesFromPrevious(run, i) ==
    LET prev == IF i = 1 THEN "neu_lager" ELSE After(run[i - 1].id) IN
    IF run[i].type = "sink"
    THEN \E p \in PidsOf("sink_consumer") : InputsOf(p) = {prev}
    ELSE /\ InstancesOf(run[i].id) # {}
         /\ \A p \in InstancesOf(run[i].id) : prev \in InputsOf(p)

\* C35: for any forward_flow list every process station takes its input from
\* the output buffer of the station configured before it (the first from
\* neu_lager), the sink consumes the output buffer of the last process
\* station, and every after_<station> buffer has a consumer.
ChainFollowsConfiguredOrder ==
    procs # <<>> =>
        LET run == StepsRun(cfg.forward_flow, 1) IN
        /\ \A i \in 1..Len(run) : TakesFromPrevious(run, i)
        /\ \A id \in ProcessSteps(cfg) :
              \E p \in Pids : After(id) \in InputsOf(p)

\* Instance p is in Processing, or its reservation has been granted and the
\* runner is about to be resumed into Processing.
Working(p) ==
    \/ proc[p].pc = "wait_process"
    \/ /\ proc[p].pc = "wait_workers"
       /\ \E i \in 1..Len(queue) : queue[i].kind = "cget" /\ queue[i].proc = p

\* C36: the worker units missing from the pool are those of the station
\* instances in Processing: an instance that is idle, waits for workers,
\* puts into its output buffer or is repaired holds none.
OnlyProcessingHoldsWorkers ==
    (HasPool(cfg) /\ procs # <<>>) =>
        cfg.workers_total - level =
            SumF([p \in {q \in Stations : Procs[q].wr > 0 /\ Working(q)} |->
                    Procs[p].wr])

\* C36 witness: a machine is repaired while another instance is in
\* Processing with the only worker of the pool.
WorkerFreeDuringRepair ==
    /\ Running
    /\ \E p, q \in Stations :
          /\ proc[p].pc = "wait_repair" /\ Procs[p].wr > 0
          /\ proc[q].pc = "wait_process" /\ Procs[q].wr = cfg.workers_total
          /\ level = 0

\* The process steps of the forward flow, in the configured order.
ProcessRun == SelectSeq(StepsRun(cfg.forward_flow, 1), LAMBDA st : st.type = "process")

\* C37: in every reachable state throughput_kunde is at most station_output
\* of the last process station, and station_output of every station is at
\* most station_output of the station before it in the chain.
OutputCountsDecreaseAlongChain ==
    (procs # <<>> /\ ProcessRun # <<>>) =>
        LET so(i) == DictGet(metrics.station_output, ProcessRun[i].id, 0) IN
        /\ metrics.throughput_kunde <= so(Len(ProcessRun))
        /\ \A i \in 2..Len(ProcessRun) : so(i) <= so(i - 1)

=============================================================================
